---- MODULE Spec2Model ----
(***************************************************************************)
(* A model of the notebook "Headline Classifier Local.ipynb": the kernel   *)
(* that executes its code cells top to bottom, the values the cells bind,  *)
(* the files they write, and the widget callback `classify`.               *)
(*                                                                         *)
(* Texts are modelled as sequences of lower-cased words (the splitting and *)
(* lower-casing are the Keras tokenizer's), arrays as records of a shape   *)
(* and the rows, scores in millionths.                                     *)
(***************************************************************************)
EXTENDS Integers, Sequences, FiniteSets, TLC

(* ---------------------------- bounds ---------------------------------- *)

\* rows of the downloaded dataset
MaxRows == 5
\* words in a headline the user types
MaxTextLen == 41
\* outcomes of training beyond the first (weight vectors model.fit may end with)
MaxWeights == 1
\* user interactions (edits, clicks, direct calls) after a run over the datasets
RunEvents == 1
\* user interactions after a run over the headlines
UseEvents == 3

(* ------------------------ program constants --------------------------- *)

\* classify: max_length = 40
max_length == 40
\* Embedding(..., input_length=40, ...)
input_length == 40
\* Embedding(vocab_size, 100, ...)
embedding_dim == 100
\* train_test_split(..., test_size=0.2, ...), in percent
test_size_pct == 20

\* widgets.Text(value="The markets were bullish after news of the merger")
DefaultHeadline ==
    <<"the", "markets", "were", "bullish", "after", "news", "of", "the", "merger">>

\* the cells with the split and its save moved above the embeddings
CellOrderSplitFirst ==
    << "setup", "download", "imports", "load_csv", "value_counts",
       "encode_labels", "show_category", "show_encoded", "tokenize",
       "show_title", "show_padded", "split", "save_splits", "embeddings",
       "save_embeddings", "define_imports", "build_model",
       "fit_evaluate", "use_model" >>

\* the cells with the embeddings loaded above the tokenizing
CellOrderEmbeddingsFirst ==
    << "setup", "download", "imports", "load_csv", "value_counts",
       "encode_labels", "show_category", "show_encoded", "embeddings",
       "tokenize", "show_title", "show_padded", "save_embeddings",
       "split", "save_splits", "define_imports", "build_model",
       "fit_evaluate", "use_model" >>

\* the code cells of the notebook, top to bottom
CellOrder ==
    << "setup", "download", "imports", "load_csv", "value_counts",
       "encode_labels", "show_category", "show_encoded", "tokenize",
       "show_title", "show_padded", "embeddings", "save_embeddings",
       "split", "save_splits", "define_imports", "build_model",
       "fit_evaluate", "use_model" >>

NCells == Len(CellOrder)

(* ------------------------- generic helpers ---------------------------- *)

Range(s) == {s[i] : i \in 1..Len(s)}

RECURSIVE Sum(_)
Sum(s) == IF s = <<>> THEN 0 ELSE Head(s) + Sum(Tail(s))

\* the distinct elements of s, in order of first occurrence
RECURSIVE Distinct(_)
Distinct(s) ==
    IF s = <<>> THEN <<>>
    ELSE LET d == Distinct(SubSeq(s, 1, Len(s) - 1))
             x == s[Len(s)]
         IN  IF x \in Range(d) THEN d ELSE Append(d, x)

RECURSIVE Concat(_)
Concat(ss) == IF ss = <<>> THEN <<>> ELSE Head(ss) \o Concat(Tail(ss))

\* a 2-d array: its shape and its rows
Arr(rows, cols) == [shape |-> <<Len(rows), cols>>, data |-> rows]

EmptyArr == Arr(<<>>, 0)

(* ------------------ the libraries the notebook calls ------------------ *)

\* os.makedirs(path, exist_ok): the directory and its parents; it raises
\* FileExistsError when the directory exists and exist_ok is not set
Prefixes(path) == {SubSeq(path, 1, k) : k \in 0..Len(path)}

makedirs(ds, path) == ds \cup Prefixes(path)

CanMake(ds, path, exist_ok) == exist_ok \/ path \notin ds

\* np.save(file, arr): the file name gets the extension .npy unless it has it
NpyName(file) ==
    IF file.ext = "npy" THEN file
    ELSE [dir |-> file.dir, stem |-> file.stem, ext |-> "npy"]

\* np.save raises FileNotFoundError when the directory does not exist
CanSave(ds, file) == file.dir \in ds

np_save(fl, file, arr) ==
    [p \in DOMAIN fl \cup {NpyName(file)} |->
        IF p = NpyName(file) THEN arr ELSE fl[p]]

\* Tokenizer.texts_to_sequences([text])[0]: the index of each word of the
\* vocabulary, words outside it dropped
IndexOf(word_index, w) == CHOOSE i \in 1..Len(word_index) : word_index[i] = w

RECURSIVE texts_to_sequences(_, _)
texts_to_sequences(word_index, text) ==
    IF text = <<>> THEN <<>>
    ELSE LET rest == texts_to_sequences(word_index, Tail(text))
         IN  IF Head(text) \in Range(word_index)
             THEN <<IndexOf(word_index, Head(text))>> \o rest
             ELSE rest

\* pad_sequences(sequences, maxlen, padding, truncating="pre") on one sequence
Zeros(n) == [i \in 1..n |-> 0]

Truncate(s, maxlen, truncating) ==
    IF Len(s) <= maxlen THEN s
    ELSE IF truncating = "pre" THEN SubSeq(s, Len(s) - maxlen + 1, Len(s))
    ELSE SubSeq(s, 1, maxlen)

pad_sequences(s, maxlen, padding) ==
    LET t == Truncate(s, maxlen, "pre")
    IN  IF padding = "post" THEN t \o Zeros(maxlen - Len(t))
        ELSE Zeros(maxlen - Len(t)) \o t

\* np.argmin in the place of np.argmax
np_argmin(s) ==
    (CHOOSE i \in 1..Len(s) :
        /\ \A x \in Range(s) : s[i] <= x
        /\ \A j \in 1..(i - 1) : s[j] # s[i]) - 1

\* np.argmax(result): the first position of the largest value, from 0
MaxOf(s) == CHOOSE m \in Range(s) : \A x \in Range(s) : x <= m

np_argmax(s) == (CHOOSE i \in 1..Len(s) : s[i] = MaxOf(s) /\ \A j \in 1..(i - 1) : s[j] # s[i]) - 1

\* f"{x:.2%}": a score in millionths, printed in hundredths of a percent
FormatPct(x) == (x + 50) \div 100

\* sklearn's train_test_split(X, y, test_size, random_state): the number of
\* test rows is ceil(test_size * n) (in exact arithmetic here; in floating
\* point 0.2 * n may exceed a whole number by an ulp, which adds one row), the
\* rows are shuffled by the permutation the random state gives, the first
\* n_test of it are the test rows
NTest(n, pct) == (pct * n + 99) \div 100

TrainTestSplit(X, y, pct, perm) ==
    LET n == Len(X.data)
        n_test == NTest(n, pct)
        test_idx == SubSeq(perm, 1, n_test)
        train_idx == SubSeq(perm, n_test + 1, n)
        Take(a, idx) == Arr([k \in 1..Len(idx) |-> a.data[idx[k]]], a.shape[2])
    IN  [X_train |-> Take(X, train_idx), X_test |-> Take(X, test_idx),
         y_train |-> Take(y, train_idx), y_test |-> Take(y, test_idx),
         train_idx |-> train_idx, test_idx |-> test_idx]

Perms(n) ==
    {p \in [1..n -> 1..n] : \A i, j \in 1..n : p[i] = p[j] => i = j}

\* the scores the network gives a padded example: a fixed function of the
\* weights and the example, one score per class
ScoreLevels == <<0, 123449, 250000, 499951, 999999>>

Score(weights, x, i) ==
    LET h == (weights + i) * (Sum(x) + i) + Len(SelectSeq(x, LAMBDA v : v # 0))
    IN  ScoreLevels[(h % Len(ScoreLevels)) + 1]

model_predict(m, x) == [i \in 1..m.units |-> Score(m.weights, x, i)]

(* --------------------- util.preprocessing (imported) ------------------ *)

\* the categories of the dataset, in the order the label encoder sorts them
Categories == <<"b", "e", "m", "t">>

Titles ==
    << <<"markets", "merger">>, <<"virus", "vaccine", "markets">>, <<"film">> >>

\* data/newsCorpora.csv, written by download_dataset and read by the notebook
CsvFile == [dir |-> <<"data">>, stem |-> "newsCorpora", ext |-> "csv"]

\* a dataset of n rows whose categories cycle through the first k categories
Dataset(n, k) ==
    [i \in 1..n |->
        [TITLE |-> Titles[((i - 1) % Len(Titles)) + 1],
         CATEGORY |-> Categories[((i - 1) % k) + 1]]]

\* download_dataset(): the dataset is fetched into data/newsCorpora.csv
download_dataset(ds, fl, dataset) ==
    [dirs |-> makedirs(ds, CsvFile.dir),
     files |-> [p \in DOMAIN fl \cup {CsvFile} |->
                   IF p = CsvFile THEN dataset ELSE fl[p]]]

\* dummy_encode_labels(df, "CATEGORY"): one-hot rows and the sorted labels
dummy_encode_labels(df) ==
    LET present == {df[i].CATEGORY : i \in 1..Len(df)}
        labels == SelectSeq(Categories, LAMBDA c : c \in present)
        OneHot(c) == [j \in 1..Len(labels) |-> IF labels[j] = c THEN 1 ELSE 0]
    IN  [encoded_y |-> Arr([i \in 1..Len(df) |-> OneHot(df[i].CATEGORY)], Len(labels)),
         labels |-> labels]

\* tokenize_pad_docs(df, "TITLE"): a tokenizer fitted on the titles and the
\* titles as token sequences of the fixed length
fit_on_texts(word_index, texts) == Distinct(word_index \o Concat(texts))

tokenize_pad_docs(df) ==
    LET word_index == fit_on_texts(<<>>, [i \in 1..Len(df) |-> df[i].TITLE])
    IN  [padded_docs |->
            Arr([i \in 1..Len(df) |->
                    pad_sequences(texts_to_sequences(word_index, df[i].TITLE),
                                  input_length, "post")],
                input_length),
         tokenizer |-> [word_index |-> word_index]]

\* get_word_embeddings(tokenizer, folder): one row per vocabulary id (row 0
\* for the padding id), each row the pretrained vector of that word, of the
\* dimension the embeddings file has
get_word_embeddings(tokenizer, dim) ==
    Arr([i \in 1..(Len(tokenizer.word_index) + 1) |-> <<i - 1>>], dim)

\* the embeddings are read from files in the folder it is given, which
\* exists once it has returned
embeddings_folder(ds, folder) == makedirs(ds, folder)

(* ------------------ the names each cell reads and binds --------------- *)

Reads(cell) ==
    CASE cell = "load_csv" -> {"pd"}
      [] cell \in {"value_counts", "show_category", "show_title"} -> {"df"}
      [] cell \in {"encode_labels", "tokenize"} -> {"util", "df"}
      [] cell = "show_encoded" -> {"encoded_y"}
      [] cell = "show_padded" -> {"padded_docs"}
      [] cell = "embeddings" -> {"util", "tokenizer"}
      [] cell = "save_embeddings" -> {"np", "embedding_matrix"}
      [] cell = "split" -> {"padded_docs", "encoded_y"}
      [] cell = "save_splits" ->
            {"os", "np", "X_train", "y_train", "X_test", "y_test"}
      [] cell = "define_imports" -> {"np", "labels"}
      [] cell = "build_model" ->
            {"Sequential", "Embedding", "Conv1D", "MaxPooling1D", "Flatten",
             "Dropout", "Dense", "tf", "vocab_size", "embedding_matrix",
             "num_classes"}
      [] cell = "fit_evaluate" ->
            {"model", "X_train", "y_train", "X_test", "y_test"}
      [] cell = "classify" ->
            {"tokenizer", "pad_sequences", "model", "np", "labels"}
      [] OTHER -> {}

Binds(cell) ==
    CASE cell = "setup" ->
            {"sagemaker", "get_execution_role", "role", "sess", "s3_bucket",
             "s3_prefix"}
      [] cell = "download" -> {"util"}
      [] cell = "imports" -> {"os", "re", "np", "pd"}
      [] cell = "load_csv" -> {"column_names", "df"}
      [] cell = "encode_labels" -> {"encoded_y", "labels"}
      [] cell = "tokenize" -> {"padded_docs", "tokenizer"}
      [] cell = "embeddings" -> {"embedding_matrix"}
      [] cell = "save_embeddings" -> {"vocab_size"}
      [] cell = "split" ->
            {"train_test_split", "X_train", "X_test", "y_train", "y_test"}
      [] cell = "define_imports" ->
            {"tf", "Conv1D", "Dense", "Dropout", "Embedding", "Flatten",
             "MaxPooling1D", "Sequential", "seed", "num_classes"}
      [] cell = "build_model" -> {"model", "optimizer"}
      [] cell = "fit_evaluate" -> {"scores"}
      [] cell = "use_model" ->
            {"display", "widgets", "pad_sequences", "classify", "interaction"}
      [] OTHER -> {}

(* ------------------------------ state --------------------------------- *)

VARIABLES
    pc,          \* the position in CellOrder of the next cell to run
    run,         \* "running", "failed" or "done": the top-to-bottom run
    executing,   \* what the kernel is executing: a cell, "classify" or "none"
    error,       \* the exception that stopped the run, "" if none
    trace,       \* the steps that have finished, in order
    binder,      \* the kernel namespace: each bound name and the cell that bound it
    ns,          \* the values of the names the later cells use
    passed,      \* the arrays given to model.fit and model.evaluate
    split_idx,   \* the row positions train_test_split put in each part
    dirs,        \* the directories that exist
    files,       \* the files that exist, by path
    widget,      \* the interact_manual widget, kernel side
    boxText,     \* the text in the text box, browser side
    inbox,       \* the messages the kernel has not handled yet, first in first out
    call,        \* the arguments of the classify call being executed
    last,        \* what the last classify call printed
    first,       \* what the first classify call printed for each text
    counts,      \* submissions made and classify calls finished
    remote,      \* the dataset at the download URL
    headline,    \* the headline the user types
    permutation, \* the shuffle the random state 42 gives for the dataset's size
    patience     \* the interactions the user still makes

vars ==
    <<pc, run, executing, error, trace, binder, ns, passed, split_idx, dirs,
      files, widget, boxText, inbox, call, last, first, counts, remote,
      headline, permutation, patience>>

kernel_vars == <<pc, run, executing, error, trace, binder>>
data_vars == <<ns, passed, split_idx>>
fs_vars == <<dirs, files>>
ui_vars == <<widget, boxText, inbox, call, last, first, counts, patience>>
env_vars == <<remote, headline, permutation>>

NoModel ==
    [layers |-> <<>>, input_length |-> 0, units |-> 0, embed |-> EmptyArr,
     trainable_embed |-> FALSE, compiled |-> FALSE, loss |-> "",
     weights |-> 0, fitted |-> FALSE]

NoCall == [text |-> <<>>, via |-> "", box |-> <<>>]

NoOutput ==
    [text |-> <<>>, via |-> "", padded |-> <<>>, result |-> <<>>, ix |-> 0,
     label |-> "", confidence |-> 0]

\* the headlines a user may type: n words, all known, or every second one
\* outside any vocabulary
Text(n, pattern) ==
    [i \in 1..n |->
        IF pattern = 1 THEN <<"markets", "merger", "film">>[((i - 1) % 3) + 1]
        ELSE <<"markets", "zebra">>[((i - 1) % 2) + 1]]

InitCommon ==
    /\ pc = 1
    /\ run = "running"
    /\ executing = "none"
    /\ error = ""
    /\ trace = <<>>
    /\ binder = <<>>
    /\ ns = [df |-> <<>>, encoded_y |-> EmptyArr, labels |-> <<>>,
             padded_docs |-> EmptyArr, tokenizer |-> [word_index |-> <<>>],
             embedding_matrix |-> EmptyArr, vocab_size |-> 0,
             X_train |-> EmptyArr, X_test |-> EmptyArr,
             y_train |-> EmptyArr, y_test |-> EmptyArr,
             num_classes |-> 0, model |-> NoModel, scores |-> <<>>]
    /\ passed = [fit_X |-> EmptyArr, fit_y |-> EmptyArr,
                 eval_X |-> EmptyArr, eval_y |-> EmptyArr]
    /\ split_idx = [train |-> <<>>, test |-> <<>>]
    /\ files = <<>>
    /\ widget = [exists |-> FALSE, value |-> <<>>, button |-> ""]
    /\ boxText = <<>>
    /\ inbox = <<>>
    /\ call = NoCall
    /\ last = NoOutput
    /\ first = <<>>
    /\ counts = [clicks |-> 0, direct |-> 0, widget_runs |-> 0, direct_runs |-> 0]

\* the run on datasets of every size, with one headline typed afterwards
Init ==
    /\ InitCommon
    /\ remote \in {Dataset(n, k) : n \in 0..MaxRows, k \in {1, 4}}
    /\ permutation \in Perms(Len(remote))
    /\ dirs \in {{<<>>},
                 {<<>>, <<"data">>, <<"data", "train">>, <<"data", "embeddings">>}}
    /\ headline = Text(2, 2)
    /\ patience = RunEvents

\* the run on one small dataset, with headlines of every length typed afterwards
InitUse ==
    /\ InitCommon
    /\ remote \in {Dataset(2, 1), Dataset(4, 4)}
    /\ permutation = [i \in 1..Len(remote) |-> Len(remote) + 1 - i]
    /\ dirs = {<<>>}
    /\ headline \in {Text(n, 1) : n \in 0..MaxTextLen} \cup {Text(n, 2) : n \in 2..4}
    /\ patience = UseEvents

(* ------------------------------ kernel -------------------------------- *)

Bind(cell, names) ==
    [n \in DOMAIN binder \cup names |-> IF n \in names THEN cell ELSE binder[n]]

\* the cell has finished: the kernel goes on to the next one
Finish(cell, steps, names) ==
    /\ pc' = pc + 1
    /\ run' = IF pc = NCells THEN "done" ELSE "running"
    /\ executing' = "none"
    /\ error' = error
    /\ trace' = trace \o steps
    /\ binder' = Bind(cell, names)

\* the cell has raised: nothing catches it, the kernel drops the cells queued
\* behind it
Raise(cell, exception, steps, names) ==
    /\ pc' = pc
    /\ run' = "failed"
    /\ executing' = "none"
    /\ error' = exception
    /\ trace' = trace \o steps
    /\ binder' = Bind(cell, names)

\* a cell whose reads are bound runs its body, any other raises NameError
Cell(cell, body) ==
    /\ executing = cell
    /\ IF Reads(cell) \subseteq DOMAIN binder
       THEN body
       ELSE /\ Raise(cell, "NameError", <<>>, {})
            /\ UNCHANGED <<data_vars, fs_vars, ui_vars, env_vars>>

\* the kernel takes the next cell of the run when it executes nothing
StartCell ==
    /\ run = "running"
    /\ executing = "none"
    /\ executing' = CellOrder[pc]
    /\ UNCHANGED <<pc, run, error, trace, binder>>
    /\ UNCHANGED <<data_vars, fs_vars, ui_vars, env_vars>>

(* --------------------- the cells, top to bottom ----------------------- *)

\* role = get_execution_role(); sess = sagemaker.Session(); ...
Setup ==
    Cell("setup",
         /\ \E ok \in BOOLEAN :
              IF ok THEN Finish("setup", <<"setup">>, Binds("setup"))
              ELSE Raise("setup", "ClientError", <<>>, {"sagemaker", "get_execution_role"})
         /\ UNCHANGED <<data_vars, fs_vars, ui_vars, env_vars>>)

\* import util.preprocessing; util.preprocessing.download_dataset()
Download ==
    Cell("download",
         /\ \E ok \in BOOLEAN :
              IF ok
              THEN /\ Finish("download", <<"download">>, Binds("download"))
                   /\ dirs' = download_dataset(dirs, files, remote).dirs
                   /\ files' = download_dataset(dirs, files, remote).files
              ELSE /\ Raise("download", "URLError", <<>>, Binds("download"))
                   /\ UNCHANGED fs_vars
         /\ UNCHANGED <<data_vars, ui_vars, env_vars>>)

\* import os, re, numpy as np, pandas as pd
Imports ==
    Cell("imports",
         /\ Finish("imports", <<"imports">>, Binds("imports"))
         /\ UNCHANGED <<data_vars, fs_vars, ui_vars, env_vars>>)

\* read_csv wrapped in a handler that puts an empty frame in place of a
\* file it cannot read
LoadCsvDefault ==
    Cell("load_csv",
         /\ Finish("load_csv", <<"load_csv">>, Binds("load_csv"))
         /\ ns' = [ns EXCEPT !.df = IF CsvFile \in DOMAIN files
                                    THEN files[CsvFile] ELSE <<>>]
         /\ UNCHANGED <<passed, split_idx, fs_vars, ui_vars, env_vars>>)

\* df = pd.read_csv("data/newsCorpora.csv", names=column_names, ...)
LoadCsv ==
    Cell("load_csv",
         /\ IF CsvFile \notin DOMAIN files
            THEN /\ Raise("load_csv", "FileNotFoundError", <<>>, {"column_names"})
                 /\ UNCHANGED ns
            ELSE IF Len(files[CsvFile]) = 0
            THEN /\ Raise("load_csv", "EmptyDataError", <<>>, {"column_names"})
                 /\ UNCHANGED ns
            ELSE /\ Finish("load_csv", <<"load_csv">>, Binds("load_csv"))
                 /\ ns' = [ns EXCEPT !.df = files[CsvFile]]
         /\ UNCHANGED <<passed, split_idx, fs_vars, ui_vars, env_vars>>)

\* df["CATEGORY"].value_counts()
ValueCounts ==
    Cell("value_counts",
         /\ Finish("value_counts", <<"value_counts">>, {})
         /\ UNCHANGED <<data_vars, fs_vars, ui_vars, env_vars>>)

\* encoded_y, labels = util.preprocessing.dummy_encode_labels(df, "CATEGORY")
EncodeLabels ==
    Cell("encode_labels",
         /\ Finish("encode_labels", <<"encode_labels">>, Binds("encode_labels"))
         /\ ns' = [ns EXCEPT !.encoded_y = dummy_encode_labels(ns.df).encoded_y,
                             !.labels = dummy_encode_labels(ns.df).labels]
         /\ UNCHANGED <<passed, split_idx, fs_vars, ui_vars, env_vars>>)

\* a cell that shows the row with index `row` of an array of `n` rows
Show(cell, n, row, exception) ==
    Cell(cell,
         /\ IF row < n THEN Finish(cell, <<cell>>, {})
            ELSE Raise(cell, exception, <<>>, {})
         /\ UNCHANGED <<data_vars, fs_vars, ui_vars, env_vars>>)

\* df["CATEGORY"][1]
ShowCategory == Show("show_category", Len(ns.df), 1, "KeyError")

\* encoded_y[0]
ShowEncoded == Show("show_encoded", Len(ns.encoded_y.data), 0, "IndexError")

\* padded_docs, tokenizer = util.preprocessing.tokenize_pad_docs(df, "TITLE")
Tokenize ==
    Cell("tokenize",
         /\ Finish("tokenize", <<"tokenize">>, Binds("tokenize"))
         /\ ns' = [ns EXCEPT !.padded_docs = tokenize_pad_docs(ns.df).padded_docs,
                             !.tokenizer = tokenize_pad_docs(ns.df).tokenizer]
         /\ UNCHANGED <<passed, split_idx, fs_vars, ui_vars, env_vars>>)

\* df["TITLE"][1]
ShowTitle == Show("show_title", Len(ns.df), 1, "KeyError")

\* padded_docs[0]
ShowPadded == Show("show_padded", Len(ns.padded_docs.data), 0, "IndexError")

\* the folder given to get_word_embeddings: "data/embeddings"
EmbeddingsFolder == <<"data", "embeddings">>

\* the dimensions an embeddings file may have
EmbeddingDims == {embedding_dim, 50}

\* embedding_matrix = util.preprocessing.get_word_embeddings(tokenizer, "data/embeddings")
Embeddings ==
    Cell("embeddings",
         /\ \/ \E dim \in EmbeddingDims :
                 /\ Finish("embeddings", <<"embeddings">>, Binds("embeddings"))
                 /\ dirs' = embeddings_folder(dirs, EmbeddingsFolder)
                 /\ ns' = [ns EXCEPT !.embedding_matrix =
                                        get_word_embeddings(ns.tokenizer, dim)]
            \/ /\ Raise("embeddings", "FileNotFoundError", <<>>, {})
               /\ UNCHANGED <<dirs, ns>>
         /\ UNCHANGED <<passed, split_idx, files, ui_vars, env_vars>>)

\* the statements of a cell that writes files, run in order until one raises:
\* the directories and files they leave, how many finished, the exception
RECURSIVE Exec(_, _, _)
Exec(stmts, d, f) ==
    IF stmts = <<>> THEN [dirs |-> d, files |-> f, done |-> 0, error |-> ""]
    ELSE LET st == Head(stmts)
         IN  IF st.op = "makedirs" /\ ~CanMake(d, st.dir, st.exist_ok)
             THEN [dirs |-> d, files |-> f, done |-> 0,
                   error |-> "FileExistsError"]
             ELSE IF st.op = "makedirs"
             THEN LET r == Exec(Tail(stmts), makedirs(d, st.dir), f)
                  IN  [r EXCEPT !.done = @ + 1]
             ELSE IF ~CanSave(d, st.file)
             THEN [dirs |-> d, files |-> f, done |-> 0,
                   error |-> "FileNotFoundError"]
             ELSE LET r == Exec(Tail(stmts), d, np_save(f, st.file, st.arr))
                  IN  [r EXCEPT !.done = @ + 1]

\* a cell of such statements: the first k run, and either one of them raises,
\* or the next one fails on the disk (k < Len(stmts)), or the cell finishes
SaveCell(cell, stmts, after) ==
    \E k \in 0..Len(stmts) :
        LET r == Exec(SubSeq(stmts, 1, k), dirs, files)
        IN  /\ dirs' = r.dirs
            /\ files' = r.files
            /\ IF r.error # "" THEN Raise(cell, r.error, <<>>, {}) /\ UNCHANGED ns
               ELSE IF k < Len(stmts) THEN Raise(cell, "OSError", <<>>, {}) /\ UNCHANGED ns
               ELSE Finish(cell, <<cell>>, Binds(cell)) /\ ns' = after

\* np.save(file="./data/embeddings/docs-embedding-matrix", arr=embedding_matrix, ...)
EmbeddingMatrixFile ==
    [dir |-> <<"data", "embeddings">>, stem |-> "docs-embedding-matrix", ext |-> ""]

SaveEmbeddingsStmts ==
    << [op |-> "save", file |-> EmbeddingMatrixFile, arr |-> ns.embedding_matrix] >>

\* np.save(...); vocab_size = embedding_matrix.shape[0]
SaveEmbeddings ==
    Cell("save_embeddings",
         /\ SaveCell("save_embeddings", SaveEmbeddingsStmts,
                     [ns EXCEPT !.vocab_size = ns.embedding_matrix.shape[1]])
         /\ UNCHANGED <<passed, split_idx, ui_vars, env_vars>>)

\* X_train, X_test, y_train, y_test = train_test_split(padded_docs, encoded_y,
\*     test_size=0.2, random_state=42)
Split ==
    Cell("split",
         /\ LET n == Len(ns.padded_docs.data)
            IN  IF n - NTest(n, test_size_pct) <= 0
                THEN /\ Raise("split", "ValueError", <<>>, {"train_test_split"})
                     /\ UNCHANGED <<ns, split_idx>>
                ELSE LET r == TrainTestSplit(ns.padded_docs, ns.encoded_y,
                                             test_size_pct, permutation)
                     IN    /\ Finish("split", <<"split">>, Binds("split"))
                           /\ ns' = [ns EXCEPT !.X_train = r.X_train,
                                               !.X_test = r.X_test,
                                               !.y_train = r.y_train,
                                               !.y_test = r.y_test]
                           /\ split_idx' = [train |-> r.train_idx, test |-> r.test_idx]
         /\ UNCHANGED <<passed, fs_vars, ui_vars, env_vars>>)

TrainDir == <<"data", "train">>
TestDir == <<"data", "test">>
NpyFile(dir, stem) == [dir |-> dir, stem |-> stem, ext |-> "npy"]

\* the save cell with X_train saved as train_Y too
SaveSplitsStmtsMixed ==
    << [op |-> "makedirs", dir |-> TrainDir, exist_ok |-> TRUE],
       [op |-> "save", file |-> NpyFile(TrainDir, "train_X"), arr |-> ns.X_train],
       [op |-> "save", file |-> NpyFile(TrainDir, "train_Y"), arr |-> ns.X_train],
       [op |-> "makedirs", dir |-> TestDir, exist_ok |-> TRUE],
       [op |-> "save", file |-> NpyFile(TestDir, "test_X"), arr |-> ns.X_test],
       [op |-> "save", file |-> NpyFile(TestDir, "test_Y"), arr |-> ns.y_test] >>

\* the save cell without the second makedirs
SaveSplitsStmtsNoTestDir ==
    << [op |-> "makedirs", dir |-> TrainDir, exist_ok |-> TRUE],
       [op |-> "save", file |-> NpyFile(TrainDir, "train_X"), arr |-> ns.X_train],
       [op |-> "save", file |-> NpyFile(TrainDir, "train_Y"), arr |-> ns.y_train],
       [op |-> "save", file |-> NpyFile(TestDir, "test_X"), arr |-> ns.X_test],
       [op |-> "save", file |-> NpyFile(TestDir, "test_Y"), arr |-> ns.y_test] >>

\* os.makedirs("./data/train", exist_ok=True); np.save("./data/train/train_X.npy", X_train); ...
SaveSplitsStmts ==
    << [op |-> "makedirs", dir |-> TrainDir, exist_ok |-> TRUE],
       [op |-> "save", file |-> NpyFile(TrainDir, "train_X"), arr |-> ns.X_train],
       [op |-> "save", file |-> NpyFile(TrainDir, "train_Y"), arr |-> ns.y_train],
       [op |-> "makedirs", dir |-> TestDir, exist_ok |-> TRUE],
       [op |-> "save", file |-> NpyFile(TestDir, "test_X"), arr |-> ns.X_test],
       [op |-> "save", file |-> NpyFile(TestDir, "test_Y"), arr |-> ns.y_test] >>

SaveSplits ==
    Cell("save_splits",
         /\ SaveCell("save_splits", SaveSplitsStmts, ns)
         /\ UNCHANGED <<passed, split_idx, ui_vars, env_vars>>)

\* import tensorflow ...; seed = 42; np.random.seed(seed); num_classes=len(labels)
DefineImports ==
    Cell("define_imports",
         /\ Finish("define_imports", <<"define_imports">>, Binds("define_imports"))
         /\ ns' = [ns EXCEPT !.num_classes = Len(ns.labels)]
         /\ UNCHANGED <<passed, split_idx, fs_vars, ui_vars, env_vars>>)

\* model = Sequential(); model.add(Embedding(vocab_size, 100, weights=[embedding_matrix],
\*     input_length=40, trainable=False, ...)); ...; model.add(Dense(num_classes, ...))
\* model.compile(optimizer=optimizer, loss="binary_crossentropy", metrics=["acc"])
BuiltModel ==
    [layers |-> <<"embed", "conv_1", "maxpool_1", "flat_1", "dropout_1",
                  "dense_1", "out_1">>,
     input_length |-> input_length,
     units |-> ns.num_classes,
     embed |-> ns.embedding_matrix,
     trainable_embed |-> FALSE,
     compiled |-> TRUE,
     loss |-> "binary_crossentropy",
     weights |-> 0,
     fitted |-> FALSE]

BuildModel ==
    Cell("build_model",
         /\ IF ns.embedding_matrix.shape # <<ns.vocab_size, embedding_dim>>
            THEN /\ Raise("build_model", "ValueError", <<>>, {"model"})
                 /\ UNCHANGED ns
            ELSE /\ Finish("build_model", <<"build_model", "compile">>,
                           Binds("build_model"))
                 /\ ns' = [ns EXCEPT !.model = BuiltModel]
         /\ UNCHANGED <<passed, split_idx, fs_vars, ui_vars, env_vars>>)

\* the arrays fit and evaluate accept: as wide as the model's input and output
Accepts(m, X, y) ==
    /\ m.compiled
    /\ X.shape[2] = m.input_length
    /\ y.shape[2] = m.units
    /\ X.shape[1] = y.shape[1]

\* fit given the whole dataset
FitArgsWhole == [X |-> ns.padded_docs, y |-> ns.encoded_y]

\* model.fit(X_train, y_train, batch_size=16, epochs=5, verbose=1)
FitArgs == [X |-> ns.X_train, y |-> ns.y_train]

\* scores = model.evaluate(X_test, y_test, verbose=2)
EvaluateArgs == [X |-> ns.X_test, y |-> ns.y_test]

model_evaluate(m, X, y) ==
    <<Score(m.weights, Concat(X.data), 1), Score(m.weights, Concat(y.data), 2)>>

\* the fit and evaluate cell: k of its two calls finish
FitEvaluate ==
    Cell("fit_evaluate",
         /\ \E w \in 1..(MaxWeights + 1), k \in 0..2 :
              LET fitted == [ns.model EXCEPT !.weights = w, !.fitted = TRUE]
                  fit_ok == Accepts(ns.model, FitArgs.X, FitArgs.y) /\ k >= 1
                  eval_ok == fit_ok /\ Accepts(fitted, EvaluateArgs.X, EvaluateArgs.y)
                                 /\ k = 2
              IN  /\ ns' = [ns EXCEPT
                              !.model = IF fit_ok THEN fitted ELSE @,
                              !.scores = IF eval_ok
                                         THEN model_evaluate(fitted, EvaluateArgs.X,
                                                             EvaluateArgs.y)
                                         ELSE @]
                  /\ passed' = [fit_X |-> IF fit_ok THEN FitArgs.X ELSE passed.fit_X,
                                fit_y |-> IF fit_ok THEN FitArgs.y ELSE passed.fit_y,
                                eval_X |-> IF eval_ok THEN EvaluateArgs.X ELSE passed.eval_X,
                                eval_y |-> IF eval_ok THEN EvaluateArgs.y ELSE passed.eval_y]
                  /\ IF eval_ok
                     THEN Finish("fit_evaluate", <<"fit", "evaluate">>,
                                 Binds("fit_evaluate"))
                     ELSE IF fit_ok
                     THEN Raise("fit_evaluate",
                                IF k = 2 THEN "ValueError" ELSE "ResourceExhaustedError",
                                <<"fit">>, {})
                     ELSE Raise("fit_evaluate",
                                IF k >= 1 THEN "ValueError" ELSE "ResourceExhaustedError",
                                <<>>, {})
         /\ UNCHANGED <<split_idx, fs_vars, ui_vars, env_vars>>)

(* --------------------- classify and the widget ------------------------ *)

\* the example padded before the tokens
PadExamplePre(encoded_example) ==
    pad_sequences(encoded_example, max_length, "pre")

\* padded_example = pad_sequences(encoded_example, maxlen=max_length, padding="post")
PadExample(encoded_example) ==
    pad_sequences(encoded_example, max_length, "post")

\* def classify(text): what it prints for a text
classify(text, via) ==
    LET encoded_example == texts_to_sequences(ns.tokenizer.word_index, text)
        padded_example == PadExample(encoded_example)
        result == model_predict(ns.model, padded_example)
        ix == np_argmax(result)
    IN  [text |-> text, via |-> via, padded |-> padded_example,
         result |-> result, ix |-> ix,
         label |-> IF ix + 1 \in DOMAIN ns.labels THEN ns.labels[ix + 1]
                   ELSE "IndexError",
         confidence |-> IF ix + 1 \in DOMAIN result THEN FormatPct(result[ix + 1])
                        ELSE -1]

\* a classify that fits the tokenizer on the text it is given
classify_refits(text) ==
    [ns EXCEPT !.tokenizer.word_index = fit_on_texts(@, <<text>>)]

\* the values of the notebook's names after a call of classify: it assigns
\* only its own local names
classify_globals(text) == ns

\* widgets.interact in the place of interact_manual
interact_auto == FALSE

\* widgets.interact_manual: classify runs on a submission only
manual == TRUE

\* interaction.widget.children[1].description = "Classify!"
ButtonDescription == "Classify!"

\* from IPython import display; import ipywidgets as widgets; ...; def classify ...;
\* interaction = widgets.interact_manual(classify, text=widgets.Text(value=...))
UseModel ==
    Cell("use_model",
         /\ \/ /\ Finish("use_model", <<"use_model">>, Binds("use_model"))
               /\ widget' = [exists |-> TRUE, value |-> DefaultHeadline,
                             button |-> ButtonDescription]
               /\ boxText' = DefaultHeadline
               /\ IF manual
                  THEN UNCHANGED <<last, first, counts, ns>>
                  ELSE /\ last' = classify(DefaultHeadline, "widget")
                       /\ first' = [t \in {DefaultHeadline} |->
                                       classify(DefaultHeadline, "widget")]
                       /\ counts' = [counts EXCEPT !.widget_runs = @ + 1]
                       /\ ns' = classify_globals(DefaultHeadline)
            \/ /\ Raise("use_model", "ImportError", <<>>, {"display"})
               /\ UNCHANGED <<widget, boxText, last, first, counts, ns>>
         /\ UNCHANGED <<passed, split_idx, fs_vars, inbox, call, patience, env_vars>>)

UserTexts == {DefaultHeadline, headline}

Send(msg) == inbox' = Append(inbox, msg)

\* the user changes the text in the box: the browser sends the new value
UserEdit ==
    /\ widget.exists
    /\ patience > 0
    /\ \E t \in UserTexts \ {boxText} :
         /\ boxText' = t
         /\ Send([kind |-> "value", text |-> t])
    /\ patience' = patience - 1
    /\ UNCHANGED <<kernel_vars, data_vars, fs_vars, env_vars>>
    /\ UNCHANGED <<widget, call, last, first, counts>>

\* the user presses the button: the browser sends the click
UserClick ==
    /\ widget.exists
    /\ patience > 0
    /\ Send([kind |-> "click", text |-> boxText])
    /\ counts' = [counts EXCEPT !.clicks = @ + 1]
    /\ patience' = patience - 1
    /\ UNCHANGED <<kernel_vars, data_vars, fs_vars, env_vars>>
    /\ UNCHANGED <<widget, boxText, call, last, first>>

\* the user runs classify("...") in a cell of their own after the run
UserDirect ==
    /\ run = "done"
    /\ patience > 0
    /\ \E t \in UserTexts : Send([kind |-> "execute", text |-> t])
    /\ counts' = [counts EXCEPT !.direct = @ + 1]
    /\ patience' = patience - 1
    /\ UNCHANGED <<kernel_vars, data_vars, fs_vars, env_vars>>
    /\ UNCHANGED <<widget, boxText, call, last, first>>

\* the kernel handles one message at a time, when it executes nothing
Handles(kind) ==
    /\ run = "done"
    /\ executing = "none"
    /\ inbox # <<>>
    /\ Head(inbox).kind = kind
    /\ inbox' = Tail(inbox)

HandleValue ==
    /\ Handles("value")
    /\ widget' = [widget EXCEPT !.value = Head(inbox).text]
    /\ IF manual
       THEN UNCHANGED <<executing, call>>
       ELSE /\ executing' = "classify"
            /\ call' = [text |-> Head(inbox).text, via |-> "widget",
                        box |-> Head(inbox).text]
    /\ UNCHANGED <<pc, run, error, trace, binder>>
    /\ UNCHANGED <<data_vars, fs_vars, env_vars>>
    /\ UNCHANGED <<boxText, last, first, counts, patience>>

HandleClick ==
    /\ Handles("click")
    /\ executing' = "classify"
    /\ call' = [text |-> widget.value, via |-> "widget", box |-> Head(inbox).text]
    /\ UNCHANGED <<pc, run, error, trace, binder>>
    /\ UNCHANGED <<data_vars, fs_vars, env_vars>>
    /\ UNCHANGED <<widget, boxText, last, first, counts, patience>>

HandleExecute ==
    /\ Handles("execute")
    /\ executing' = "classify"
    /\ call' = [text |-> Head(inbox).text, via |-> "direct", box |-> Head(inbox).text]
    /\ UNCHANGED <<pc, run, error, trace, binder>>
    /\ UNCHANGED <<data_vars, fs_vars, env_vars>>
    /\ UNCHANGED <<widget, boxText, last, first, counts, patience>>

\* the call of classify the kernel is executing prints its result and returns
Classify ==
    /\ executing = "classify"
    /\ executing' = "none"
    /\ last' = classify(call.text, call.via)
    /\ first' = IF call.text \in DOMAIN first THEN first
                ELSE [t \in DOMAIN first \cup {call.text} |->
                         IF t = call.text THEN classify(call.text, call.via)
                         ELSE first[t]]
    /\ ns' = classify_globals(call.text)
    /\ counts' = IF call.via = "widget"
                 THEN [counts EXCEPT !.widget_runs = @ + 1]
                 ELSE [counts EXCEPT !.direct_runs = @ + 1]
    /\ call' = NoCall
    /\ UNCHANGED <<pc, run, error, trace, binder>>
    /\ UNCHANGED <<passed, split_idx, fs_vars, env_vars>>
    /\ UNCHANGED <<widget, boxText, inbox, patience>>

(* --------------------------- specification ---------------------------- *)

Next ==
    \/ StartCell
    \/ Setup
    \/ Download
    \/ Imports
    \/ LoadCsv
    \/ ValueCounts
    \/ EncodeLabels
    \/ ShowCategory
    \/ ShowEncoded
    \/ Tokenize
    \/ ShowTitle
    \/ ShowPadded
    \/ Embeddings
    \/ SaveEmbeddings
    \/ Split
    \/ SaveSplits
    \/ DefineImports
    \/ BuildModel
    \/ FitEvaluate
    \/ UseModel
    \/ UserEdit
    \/ UserClick
    \/ UserDirect
    \/ HandleValue
    \/ HandleClick
    \/ HandleExecute
    \/ Classify

Spec == Init /\ [][Next]_vars

SpecUse == InitUse /\ [][Next]_vars

(* ------------------------------ claims -------------------------------- *)

IsPrefix(s, t) == Len(s) <= Len(t) /\ s = SubSeq(t, 1, Len(s))

Ran(step) == step \in Range(trace)

\* the steps of the workflow, in the order the notebook describes them
Pipeline ==
    <<"load_csv", "encode_labels", "tokenize", "embeddings", "split",
      "build_model", "compile", "fit", "evaluate", "use_model">>

PipelineRan == SelectSeq(trace, LAMBDA st : st \in Range(Pipeline))

\* C1: in a top-to-bottom run the workflow's steps finish in the order load
\* CSV, encode labels, tokenize/pad, load embeddings, split, build, compile,
\* fit, evaluate, expose classify, each once and one at a time; a completed
\* run has run them all; the model is fitted only once compiled, evaluated
\* only once fitted, and the widget exists only once evaluate has returned.
C1_LinearOrder ==
    /\ IsPrefix(PipelineRan, Pipeline)
    /\ run = "done" => PipelineRan = Pipeline
    /\ executing \in Range(CellOrder) \cup {"none", "classify"}
    /\ executing \in Range(CellOrder) => run = "running" /\ ~Ran(executing)
    /\ ns.model.fitted => ns.model.compiled /\ Ran("compile") /\ Ran("fit")
    /\ Ran("fit") => ns.model.fitted
    /\ ns.scores # <<>> => ns.model.fitted /\ Ran("evaluate")
    /\ Ran("evaluate") => ns.scores # <<>>
    /\ widget.exists => Ran("evaluate") /\ Ran("use_model")

C1_Witness ==
    /\ run = "done"
    /\ widget.exists
    /\ ns.model.fitted
    /\ ns.scores # <<>>

\* the files the notebook's own np.save calls wrote
SavedArrays == {p \in DOMAIN files : p.ext = "npy"}

FiveFiles ==
    { [dir |-> <<"data", "embeddings">>, stem |-> "docs-embedding-matrix", ext |-> "npy"],
      [dir |-> <<"data", "train">>, stem |-> "train_X", ext |-> "npy"],
      [dir |-> <<"data", "train">>, stem |-> "train_Y", ext |-> "npy"],
      [dir |-> <<"data", "test">>, stem |-> "test_X", ext |-> "npy"],
      [dir |-> <<"data", "test">>, stem |-> "test_Y", ext |-> "npy"] }

FileAt(dir, stem) == files[[dir |-> dir, stem |-> stem, ext |-> "npy"]]

\* once the run has failed nothing of it changes
C4_Stopped ==
    run = "failed" =>
        /\ run' = "failed"
        /\ pc' = pc
        /\ executing' = "none"
        /\ error' = error
        /\ UNCHANGED <<trace, binder, ns, passed, split_idx, dirs, files, widget>>

\* a failure is the run's exception, and a finished step had what it needs
C4_Surfaces ==
    /\ error # "" <=> run = "failed"
    /\ run = "failed" => executing = "none" /\ pc \in 1..NCells /\ ~widget.exists
    /\ run = "failed" => ~Ran(CellOrder[pc]) /\ \A i \in (pc + 1)..NCells : ~Ran(CellOrder[i])
    /\ Ran("load_csv") =>
          /\ CsvFile \in DOMAIN files
          /\ ns.df = files[CsvFile]
          /\ ns.df # <<>>
    /\ Ran("build_model") =>
          ns.embedding_matrix.shape = <<ns.vocab_size, embedding_dim>>
    /\ Ran("save_splits") => FiveFiles \subseteq DOMAIN files

C5_SavedFiles ==
    run = "done" =>
        /\ SavedArrays = FiveFiles
        /\ FileAt(<<"data", "embeddings">>, "docs-embedding-matrix") = ns.model.embed
        /\ FileAt(<<"data", "embeddings">>, "docs-embedding-matrix") = ns.embedding_matrix
        /\ FileAt(<<"data", "train">>, "train_X") = passed.fit_X
        /\ FileAt(<<"data", "train">>, "train_Y") = passed.fit_y
        /\ FileAt(<<"data", "test">>, "test_X") = passed.eval_X
        /\ FileAt(<<"data", "test">>, "test_Y") = passed.eval_y

C5_Witness ==
    /\ run = "done"
    /\ Cardinality(SavedArrays) = 5
    /\ Len(passed.fit_X.data) >= 2
    /\ Len(passed.eval_X.data) >= 1

Disjoint(a, b) == a \cap b = {}

RowCount == Len(ns.padded_docs.data)

\* C8: the split is a partition that keeps inputs and labels paired: every
\* row position of padded_docs is in exactly one of the train and test parts,
\* row k of X_train (X_test) and row k of y_train (y_test) are the input and
\* the label of the same dataset row, the test part is the 20% share (rounded
\* up, within a row), fit is given the train part and evaluate the test
\* part, which share no row.
C8_SplitPartition ==
    Ran("split") =>
        /\ Range(split_idx.train) \cup Range(split_idx.test) = 1..RowCount
        /\ Disjoint(Range(split_idx.train), Range(split_idx.test))
        /\ Len(split_idx.train) + Len(split_idx.test) = RowCount
        /\ Len(ns.X_train.data) = Len(split_idx.train)
        /\ Len(ns.y_train.data) = Len(split_idx.train)
        /\ Len(ns.X_test.data) = Len(split_idx.test)
        /\ Len(ns.y_test.data) = Len(split_idx.test)
        /\ \A k \in 1..Len(split_idx.train) :
              /\ ns.X_train.data[k] = ns.padded_docs.data[split_idx.train[k]]
              /\ ns.y_train.data[k] = ns.encoded_y.data[split_idx.train[k]]
        /\ \A k \in 1..Len(split_idx.test) :
              /\ ns.X_test.data[k] = ns.padded_docs.data[split_idx.test[k]]
              /\ ns.y_test.data[k] = ns.encoded_y.data[split_idx.test[k]]
        /\ 5 * Len(split_idx.test) >= RowCount
        /\ 5 * Len(split_idx.test) <= RowCount + 5
        /\ Ran("fit") => passed.fit_X = ns.X_train /\ passed.fit_y = ns.y_train
        /\ Ran("evaluate") => passed.eval_X = ns.X_test /\ passed.eval_y = ns.y_test

C8_Witness ==
    /\ Ran("evaluate")
    /\ RowCount = 5
    /\ Len(split_idx.train) = 4
    /\ split_idx.test # <<1>>
    /\ ns.y_train.data[1] # ns.y_train.data[2]

\* the names the claim lists, by the cell (or call) that reads them
Needs(cell) ==
    CASE cell \in {"encode_labels", "tokenize"} -> {"df"}
      [] cell = "embeddings" -> {"tokenizer"}
      [] cell = "save_embeddings" -> {"embedding_matrix"}
      [] cell = "define_imports" -> {"labels"}
      [] cell = "build_model" -> {"vocab_size", "embedding_matrix", "num_classes"}
      [] cell = "fit_evaluate" -> {"X_train", "y_train", "X_test", "y_test"}
      [] cell = "classify" -> {"tokenizer", "model", "labels", "np", "pad_sequences"}
      [] OTHER -> {}

\* the names read by what is executing are bound
C9_Bound ==
    /\ error # "NameError"
    /\ Needs(executing) \subseteq DOMAIN binder
    /\ executing # "none" => Reads(executing) \subseteq DOMAIN binder

\* a bound name keeps the cell that bound it
C9_NoRebind ==
    \A n \in DOMAIN binder : n \in DOMAIN binder' /\ binder'[n] = binder[n]

\* C9: in a top-to-bottom run every name a cell (or a classify call) reads
\* was bound before: no cell raises NameError, the names the claim lists are
\* bound when their readers run, and a bound name is never bound again.
C9_NamesBound == []C9_Bound /\ [][C9_NoRebind]_vars

C9_Witness ==
    /\ executing = "classify"
    /\ Needs("classify") \subseteq DOMAIN binder
    /\ binder["tokenizer"] = "tokenize"
    /\ binder["model"] = "build_model"

Called == last.via # ""

\* C2: whatever the text, classify reports the label at the position of the
\* largest of the num_classes scores the model returned, and that score (as
\* a percentage of two decimals) as the confidence; the position is a valid
\* index of labels, so the label is one of the dataset's categories.
C2_ArgmaxLabel ==
    Called =>
        /\ Len(last.result) = ns.num_classes
        /\ ns.num_classes = Len(ns.labels)
        /\ last.ix >= 0
        /\ last.ix < Len(ns.labels)
        /\ \A j \in 1..Len(last.result) : last.result[j] <= last.result[last.ix + 1]
        /\ last.label = ns.labels[last.ix + 1]
        /\ last.confidence = FormatPct(MaxOf(last.result))
        /\ last.label \in {ns.df[i].CATEGORY : i \in 1..Len(ns.df)}
        /\ last.label \in Range(Categories)

C2_Witness ==
    /\ Called
    /\ Len(ns.labels) = 4
    /\ last.ix >= 1
    /\ \E j \in (last.ix + 2)..Len(last.result) : last.result[j] = last.result[last.ix + 1]

Tokens(text) == texts_to_sequences(ns.tokenizer.word_index, text)

\* C3: for every headline (empty, shorter than 40 tokens, exactly 40, longer)
\* the sequence given to model.predict has exactly 40 entries, the
\* input_length of the embedding layer: a shorter token sequence is followed
\* by zeros, a longer one is cut to 40 consecutive tokens of it.
C3_PaddedLength ==
    Called =>
        LET tokens == Tokens(last.text)
        IN  /\ Len(last.padded) = 40
            /\ Len(last.padded) = ns.model.input_length
            /\ Len(tokens) <= 40 =>
                  /\ SubSeq(last.padded, 1, Len(tokens)) = tokens
                  /\ \A i \in (Len(tokens) + 1)..40 : last.padded[i] = 0
            /\ Len(tokens) > 40 =>
                  \E off \in 0..(Len(tokens) - 40) :
                      last.padded = SubSeq(tokens, off + 1, off + 40)

C3_Witness ==
    /\ Called
    /\ Len(Tokens(last.text)) > 40
    /\ Len(last.padded) = 40

\* a classify call leaves the notebook's values and files as they are
C6_Frame ==
    executing = "classify" => UNCHANGED <<ns, passed, split_idx, files, dirs, binder>>

\* a call prints what the first call for its text printed; one execution at a time
C6_Same ==
    /\ Called =>
          /\ last.text \in DOMAIN first
          /\ last.padded = first[last.text].padded
          /\ last.result = first[last.text].result
          /\ last.label = first[last.text].label
          /\ last.confidence = first[last.text].confidence
    /\ executing = "classify" <=> call # NoCall
    /\ executing = "classify" => run = "done"
    /\ executing \in Range(CellOrder) => run = "running" /\ call = NoCall

\* C6: a classify call changes none of the notebook's values (the
\* tokenizer's vocabulary, the model and its weights, the labels), so what
\* it prints for a text is what the first call for that text printed; the
\* kernel executes one thing at a time: a classify call only after the run,
\* never while a cell or another call is executing.
C6_ReadOnly == [][C6_Frame]_vars /\ []C6_Same

C6_Witness ==
    /\ Called
    /\ counts.widget_runs + counts.direct_runs >= 2
    /\ Cardinality(DOMAIN first) = 1
    /\ "zebra" \in Range(last.text)

Pending(kind) == Len(SelectSeq(inbox, LAMBDA m : m.kind = kind))

InFlight(via) == IF call.via = via THEN 1 ELSE 0

====
